---- MODULE Spec2Model ----
(***************************************************************************)
(* Tap Tycoon referral server.  The repository holds four revisions of the *)
(* same server; `variant' says which one is deployed:                      *)
(*   "postgres"      src/index.js (lines 1-141), table in PostgreSQL       *)
(*   "sqlite"        src/unnamed/part_000, table in SQLite (INTEGER ids)   *)
(*   "sqlite_saves"  src/unnamed/part_001, SQLite (TEXT ids) + game saves  *)
(*   "memory"        src/unnamed/part_002, in-process object referralsDB   *)
(* The SQL revisions issue one statement per request; the statement runs   *)
(* atomically at the database some time after the handler issued it, so a  *)
(* request is in flight between its Start action and its Complete action.  *)
(* Complete is the statement's execution together with the callback (or    *)
(* the continuation after await) that consumes its result: the callback    *)
(* touches nothing but the response and the bot's outgoing messages.       *)
(* The in-memory revision's handlers are synchronous: one action each.     *)
(* Four specifications run the handlers: Spec the referral ledger, SaveSpec *)
(* the save store of part_001, ServerSpec every handler together, EquivSpec *)
(* the in-memory revision and an SQL revision side by side.                *)
(***************************************************************************)
EXTENDS Integers, Sequences, FiniteSets, Bags, TLC

\* ------------------------------------------------------------------ bounds
NumSenders == 2      \* Telegram users 1..NumSenders send /start
NumPadded == 1       \* referral codes "01".."0<NumPadded>" (non-canonical digits)
MaxInflight == 2     \* SQL statements issued and not yet executed

\* --------------------------------------------------------- JavaScript values
\* A character is a one-letter string; text is a sequence of characters.
Digits == <<"0", "1", "2", "3", "4", "5", "6", "7", "8", "9">>

DigitVal(c) == (CHOOSE d \in 1..Len(Digits) : Digits[d] = c) - 1

IsDigit(c) == \E d \in 1..Len(Digits) : Digits[d] = c

\* Number.prototype.toString for a non-negative integer.
RECURSIVE Dec(_)
Dec(n) == IF n < Len(Digits) THEN <<Digits[n + 1]>>
          ELSE Dec(n \div Len(Digits)) \o <<Digits[(n % Len(Digits)) + 1]>>

\* The integer a text of digits denotes (leading zeros allowed).
RECURSIVE ParseDigits(_)
ParseDigits(s) == IF s = <<>> THEN 0
                  ELSE ParseDigits(SubSeq(s, 1, Len(s) - 1)) * Len(Digits)
                       + DigitVal(s[Len(s)])

IsIntegerLiteral(s) == s # <<>> /\ \A i \in 1..Len(s) : IsDigit(s[i])

\* A JavaScript value: a number (s is its decimal text), a string, or undefined.
Num(n) == [t |-> "number", s |-> Dec(n)]
Str(s) == [t |-> "string", s |-> s]
Undefined == [t |-> "undefined", s |-> <<>>]

\* String(v)
String(v) == v.s

\* null, and an object with its own properties in insertion order.
Null == [t |-> "null", s |-> <<>>]
Obj(members) == [t |-> "object", s |-> <<>>, members |-> members]

\* !v
Falsy(v) == \/ v.t = "undefined"
            \/ v.t = "null"
            \/ v.t = "number" /\ v.s = Dec(0)
            \/ v.t = "string" /\ v.s = <<>>

\* JSON.stringify of a number, a string without escapes, null or an object.
RECURSIVE JsonStringify(_)
RECURSIVE StringifyMembers(_)
StringifyMembers(ms) ==
    IF ms = <<>> THEN <<>>
    ELSE (IF Len(ms) > 1 THEN StringifyMembers(SubSeq(ms, 1, Len(ms) - 1)) \o <<",">>
          ELSE <<>>)
         \o <<"\"">> \o ms[Len(ms)].key \o <<"\"", ":">>
         \o JsonStringify(ms[Len(ms)].value)

JsonStringify(v) ==
    CASE v.t = "number" -> v.s
      [] v.t = "string" -> <<"\"">> \o v.s \o <<"\"">>
      [] v.t = "null" -> <<"n", "u", "l", "l">>
      [] v.t = "object" -> <<"{">> \o StringifyMembers(v.members) \o <<"}">>

\* JSON.parse, by recursive descent: the value the text starts with and the
\* text after it.
RECURSIVE JsonValue(_)
RECURSIVE JsonMembers(_, _)
JsonMembers(s, acc) ==
    IF s[1] = "}" THEN [val |-> Obj(acc), rest |-> Tail(s)]
    ELSE IF s[1] = "," THEN JsonMembers(Tail(s), acc)
    ELSE LET k == JsonValue(s)
             v == JsonValue(Tail(k.rest))
         IN  JsonMembers(v.rest, Append(acc, [key |-> k.val.s, value |-> v.val]))

JsonValue(s) ==
    IF s[1] = "{" THEN JsonMembers(Tail(s), <<>>)
    ELSE IF s[1] = "\""
    THEN LET close == CHOOSE i \in 2..Len(s) :
                         s[i] = "\"" /\ \A j \in 2..(i - 1) : s[j] # "\""
         IN  [val |-> Str(SubSeq(s, 2, close - 1)), rest |-> SubSeq(s, close + 1, Len(s))]
    ELSE IF s[1] = "n" THEN [val |-> Null, rest |-> SubSeq(s, 5, Len(s))]
    ELSE LET last == CHOOSE i \in 1..Len(s) :
                        /\ \A j \in 1..i : IsDigit(s[j])
                        /\ i < Len(s) => ~IsDigit(s[i + 1])
         IN  [val |-> Num(ParseDigits(SubSeq(s, 1, last))),
              rest |-> SubSeq(s, last + 1, Len(s))]

JsonParse(s) == JsonValue(s).val

\* ------------------------------------------------------------------- inputs
Senders == 1..NumSenders
\* The users whose links are followed: a sender, and a user who never sends /start.
Referrers == {1, NumSenders + 1}
\* match[1] of /\/start (.+)/ and the :userId path parameter: non-empty text,
\* a user id in decimal, a user id with a leading zero, or no number at all.
Codes == {Dec(n) : n \in Referrers}
         \cup {<<Digits[1]>> \o Dec(n) : n \in 1..NumPadded}
         \cup {<<"x">>}
\* userId of a JSON body: absent, a number, or text that is no canonical number.
BodyIds == {Undefined} \cup {Num(n) : n \in Referrers}
           \cup {Str(c) : c \in Codes \ {Dec(n) : n \in Referrers}}

\* /save: userId of the body (absent, a number, text) and gameState (absent,
\* null, or an object: empty, flat, nested).
SaveIds == {Undefined, Num(1), Str(Dec(NumSenders))}
GameStates ==
    {Undefined, Null, Obj(<<>>),
     Obj(<<[key |-> <<"m">>, value |-> Num(10)]>>),
     Obj(<<[key |-> <<"m">>, value |-> Obj(<<[key |-> <<"g">>, value |-> Str(<<"a">>)]>>)],
           [key |-> <<"n">>, value |-> Null]>>)}
\* /load/:userId: the users that save, and one that never does.
LoadIds == {Dec(n) : n \in 1..(NumSenders + 1)}

SqlVariants == {"postgres", "sqlite", "sqlite_saves"}
Variants == SqlVariants \cup {"memory"}

REFERRER_REWARD == [money |-> 50000, gems |-> 5]

VARIABLES
    variant,       \* which revision of the server runs
    referrals,     \* SQL table referrals, rows in id order
    inflight,      \* bag of SQL statements issued and not yet executed
    sent,          \* sent[u]: referral welcome messages bot.sendMessage sent to u
    referralsDB,   \* the in-memory revision's object, keyed by String(referrerId)
    lastOutput,    \* the latest output: an HTTP reply or a console line
    batch,         \* history: per referrer, the claim calls now overlapping
    recorded,      \* history: bag of referrers, one copy per record created
    startup,       \* table creation: "initializing", "ready", "failed"; or "exited"
    user_saves,    \* SQL table user_saves (part_001), rows in rowid order
    paid,          \* history: per referrer, what its answered claims returned in total
    replaced       \* history: the user_ids whose save record a later save replaced

vars == <<variant, referrals, inflight, sent, referralsDB, lastOutput, batch, recorded,
          startup, user_saves, paid, replaced>>

\* ------------------------------------------------------------- SQL storage
\* A bound parameter as the column stores or compares it.
\* PostgreSQL BIGINT: the parameter's text is parsed; other text is an error.
PgBigint(v) == IF IsIntegerLiteral(String(v))
               THEN [ok |-> TRUE, val |-> Num(ParseDigits(String(v)))]
               ELSE [ok |-> FALSE, val |-> v]

\* SQLite INTEGER affinity: text that is an integer literal becomes the integer.
SqliteInteger(v) == IF v.t = "string" /\ IsIntegerLiteral(v.s)
                    THEN [ok |-> TRUE, val |-> Num(ParseDigits(v.s))]
                    ELSE [ok |-> TRUE, val |-> v]

\* SQLite TEXT affinity: a number becomes its text.
SqliteText(v) == [ok |-> TRUE, val |-> Str(String(v))]

Column(kind, v) == CASE kind = "postgres" -> PgBigint(v)
                     [] kind = "sqlite" -> SqliteInteger(v)
                     [] kind = "sqlite_saves" -> SqliteText(v)

\* Mutant of InsertReferral: the conflict clause is missing, every insert appends.
InsertReferralNoConflict(rows, referrer, referred) ==
    [rows |-> Append(rows, [referrer_id |-> referrer, referred_id |-> referred,
                            status |-> "pending"]),
     rowCount |-> 1]

\* INSERT ... ON CONFLICT (referred_id) DO NOTHING / INSERT OR IGNORE
InsertReferral(rows, referrer, referred) ==
    IF \E i \in DOMAIN rows : rows[i].referred_id = referred
    THEN [rows |-> rows, rowCount |-> 0]
    ELSE [rows |-> Append(rows, [referrer_id |-> referrer, referred_id |-> referred,
                                 status |-> "pending"]),
          rowCount |-> 1]

\* Mutant of SelectStatus: the WHERE clause is missing.
SelectStatusAll(rows, referrer) == [i \in DOMAIN rows |-> rows[i].status]

\* SELECT status FROM referrals WHERE referrer_id = $1
SelectStatus(rows, referrer) ==
    LET mine == SelectSeq(rows, LAMBDA r : r.referrer_id = referrer)
    IN  [i \in DOMAIN mine |-> mine[i].status]

\* Mutant of ClaimMatches: AND status = 'pending' is missing.
ClaimMatchesAnyStatus(rows, referrer) ==
    {i \in DOMAIN rows : rows[i].referrer_id = referrer}

\* Mutant of ClaimMatches: referrer_id = $1 is missing.
ClaimMatchesAnyReferrer(rows, referrer) ==
    {i \in DOMAIN rows : rows[i].status = "pending"}

\* The rows UPDATE ... WHERE referrer_id = $1 AND status = 'pending' matches.
ClaimMatches(rows, referrer) ==
    {i \in DOMAIN rows : rows[i].referrer_id = referrer /\ rows[i].status = "pending"}

\* Mutant of UpdateClaimed: rowCount counts every row of the referrer.
UpdateClaimedCountsAll(rows, referrer) ==
    LET hit == ClaimMatches(rows, referrer)
    IN  [rows |-> [i \in DOMAIN rows |->
                      IF i \in hit THEN [rows[i] EXCEPT !.status = "claimed"] ELSE rows[i]],
         rowCount |-> Cardinality({i \in DOMAIN rows : rows[i].referrer_id = referrer})]

\* UPDATE referrals SET status = 'claimed' WHERE referrer_id = $1 AND status = 'pending'
UpdateClaimed(rows, referrer) ==
    LET hit == ClaimMatches(rows, referrer)
    IN  [rows |-> [i \in DOMAIN rows |->
                      IF i \in hit THEN [rows[i] EXCEPT !.status = "claimed"] ELSE rows[i]],
         rowCount |-> Cardinality(hit)]

\* Mutant of ReplaceSave: INSERT OR IGNORE, an existing row is kept.
ReplaceSaveKeepsOld(rows, user_id, game_state) ==
    IF \E i \in DOMAIN rows : rows[i].user_id = user_id THEN rows
    ELSE Append(rows, [user_id |-> user_id, game_state |-> game_state])

\* Mutant of ReplaceSave: user_id is no key, every save adds a row.
ReplaceSaveAppends(rows, user_id, game_state) ==
    Append(rows, [user_id |-> user_id, game_state |-> game_state])

\* INSERT OR REPLACE INTO user_saves: the row of the same user_id is deleted,
\* the new row is added.
ReplaceSave(rows, user_id, game_state) ==
    Append(SelectSeq(rows, LAMBDA r : r.user_id # user_id),
           [user_id |-> user_id, game_state |-> game_state])

\* Mutant of SelectSave: the WHERE clause is missing.
SelectSaveAny(rows, user_id) == rows

\* SELECT game_state FROM user_saves WHERE user_id = ?
SelectSave(rows, user_id) == SelectSeq(rows, LAMBDA r : r.user_id = user_id)

\* ------------------------------------------------------------ HTTP replies
\* res.status(code).json(body)
Json(code, body) == [status |-> code, json |-> body]

\* res.status(code).send(text)
Send(code, text) == [status |-> code, send |-> text]

\* console.log / console.error of a bot handler's outcome
Console(line) == [console |-> line]

\* bot.sendMessage(chatId, text) of the handler of a plain /start
GenericWelcome(chatId) ==
    [sendMessage |-> chatId,
     text |-> "Welcome to Tap Tycoon! Open the game below to start playing."]

\* GET /my-referrals/:userId, the reply computed from the selected rows
StatsReply(rows) ==
    LET unclaimedCount == Len(SelectSeq(rows, LAMBDA st : st = "pending"))
    IN  Json(200, [friendsInvited |-> Len(rows),
                   unclaimedCount |-> unclaimedCount,
                   unclaimedReward |-> [money |-> unclaimedCount * REFERRER_REWARD.money,
                                        gems |-> unclaimedCount * REFERRER_REWARD.gems]])

\* GET /load/:userId, the reply computed from the row db.get found (none: <<>>)
LoadReply(rows) ==
    IF rows # <<>> /\ ~Falsy(rows[1].game_state)
    THEN Json(200, JsonParse(String(rows[1].game_state)))
    ELSE Json(404, [message |-> "No save data found for this user."])

\* Mutant of ClaimReply: the money is computed from the gems amount.
ClaimReplyGemsForMoney(rowCount) ==
    Json(200, [claimedCount |-> rowCount,
               rewards |-> [money |-> rowCount * REFERRER_REWARD.gems,
                            gems |-> rowCount * REFERRER_REWARD.gems]])

\* POST /claim-rewards, the reply computed from result.rowCount / this.changes
ClaimReply(rowCount) ==
    Json(200, [claimedCount |-> rowCount,
               rewards |-> [money |-> rowCount * REFERRER_REWARD.money,
                            gems |-> rowCount * REFERRER_REWARD.gems]])

\* ------------------------------------------------------- history (batches)
\* The referrer a /claim-rewards statement addresses, as the column compares it.
ClaimKey(req) == Column(variant, req.params[1])

ClaimsInFlight(bag, key) ==
    \E r \in BagToSet(bag) : r.sql = "UPDATE" /\ ClaimKey(r).ok /\ ClaimKey(r).val = key

PendingCount(rows, key) ==
    Cardinality({i \in DOMAIN rows : rows[i].referrer_id = key /\ rows[i].status = "pending"})

NoBatch == [k \in {} |-> 0]

\* A claim call for `key' starts: it opens a batch or joins the open one.
BatchStart(b, key) ==
    [k \in DOMAIN b \cup {key} |->
        IF k # key THEN b[k]
        ELSE IF key \in DOMAIN b THEN [b[key] EXCEPT !.overlap = TRUE]
        ELSE [start |-> PendingCount(referrals, key), sum |-> 0, inserted |-> 0,
              ok |-> FALSE, overlap |-> FALSE]]

\* A claim call for `key' is answered; the batch closes with its last call.
BatchReturn(b, key, answered, count, open) ==
    [k \in (IF open THEN DOMAIN b ELSE DOMAIN b \ {key}) |->
        IF k # key THEN b[k]
        ELSE [b[key] EXCEPT !.sum = @ + count, !.ok = @ \/ answered]]

\* A record of `key' is created while claim calls for it overlap.
BatchInsert(b, key) ==
    [k \in DOMAIN b |-> IF k = key THEN [b[k] EXCEPT !.inserted = @ + 1] ELSE b[k]]

\* ------------------------------------------------------ history (payments)
NoPayments == [k \in {} |-> 0]

\* The totals of `key' after a claim was answered with `reply' (the body of a
\* 200 reply of /claim-rewards); a referrer never paid has no entry.
Pay(p, key, reply) ==
    IF reply.claimedCount = 0 THEN p
    ELSE [k \in DOMAIN p \cup {key} |->
            LET was == IF k \in DOMAIN p THEN p[k]
                       ELSE [claimedCount |-> 0, money |-> 0, gems |-> 0]
            IN  IF k # key THEN was
                ELSE [claimedCount |-> was.claimedCount + reply.claimedCount,
                      money |-> was.money + reply.rewards.money,
                      gems |-> was.gems + reply.rewards.gems]]

\* ----------------------------------------------------------------- Init
Init ==
    /\ variant \in Variants
    /\ referrals = <<>>
    /\ inflight = EmptyBag
    /\ sent = [u \in Senders |-> 0]
    /\ referralsDB = [k \in {} |-> 0]
    /\ lastOutput = Console("listening")
    /\ batch = NoBatch
    /\ recorded = EmptyBag
    /\ startup = IF variant = "memory" THEN "ready" ELSE "initializing"
    /\ user_saves = <<>>
    /\ paid = NoPayments
    /\ replaced = {}

\* ------------------------------------------------------------- startup
\* The process runs until process.exit(1): the bot polls and the HTTP server
\* listens from the moment the module is loaded.
Serving == startup # "exited"

\* A statement a handler issued can run at the database.  A pg pool runs it at
\* once, whatever CREATE TABLE is doing; sqlite3 holds it until the database
\* is open, and the open callback issues CREATE TABLE first.
Executes == Serving /\ (variant = "postgres" \/ startup # "initializing")

\* Whether a statement can succeed: not before the table exists.
Failures == IF startup = "ready" THEN BOOLEAN ELSE {TRUE}

\* Mutant of AfterInitFailure: every revision exits.
AfterInitFailureExits(kind) == "exited"

\* What a failed initialization leaves: process.exit(1), or (part_000, which
\* only logs the error) a process without a usable database.
AfterInitFailure(kind) == IF kind = "sqlite" THEN "failed" ELSE "exited"

\* initializeDatabase (index.js) / the callback of new sqlite3.Database
InitializeDatabase ==
    /\ variant \in SqlVariants
    /\ startup = "initializing"
    /\ \E failure \in BOOLEAN :
          IF failure
          THEN /\ startup' = AfterInitFailure(variant)
               /\ lastOutput' = Console("DATABASE INITIALIZATION ERROR")
          ELSE /\ startup' = "ready"
               /\ lastOutput' = Console("Database initialized")
    /\ UNCHANGED <<variant, referrals, inflight, sent, referralsDB, batch, recorded,
                   user_saves, paid, replaced>>

\* pool.query(sql, params) / db.run(sql, params, cb) / db.all(sql, params, cb)
Query(sql, params) ==
    /\ BagCardinality(inflight) < MaxInflight
    /\ inflight' = inflight (+) SetToBag({[sql |-> sql, params |-> params]})

\* ------------------------------------------------- bot: /start <code>
\* The handler up to the point where it issues the INSERT.
StartReferral(sender, code) ==
    /\ variant \in SqlVariants
    /\ Serving
    /\ LET referredId == IF variant = "sqlite_saves" THEN Str(Dec(sender)) ELSE Num(sender)
           referrerId == Str(code)
       IN  IF String(referredId) = String(referrerId)
           THEN UNCHANGED <<inflight, lastOutput>>
           ELSE /\ lastOutput' = Console("Referral attempt")
                /\ Query("INSERT", <<referrerId, referredId>>)
    /\ UNCHANGED <<variant, referrals, sent, referralsDB, batch, recorded, startup, user_saves, paid, replaced>>

\* The INSERT runs and the handler's callback sees its result.
CompleteReferral(req) ==
    /\ variant \in SqlVariants
    /\ Executes
    /\ BagIn(req, inflight)
    /\ req.sql = "INSERT"
    /\ inflight' = inflight (-) SetToBag({req})
    /\ \E failure \in Failures :
        LET referrer == Column(variant, req.params[1])
            referred == Column(variant, req.params[2])
            result == InsertReferral(referrals, referrer.val, referred.val)
            to == ParseDigits(String(req.params[2]))
        IN  IF failure \/ ~referrer.ok \/ ~referred.ok
            THEN /\ lastOutput' = Console("DATABASE INSERT ERROR")
                 /\ UNCHANGED <<referrals, sent, batch, recorded>>
            ELSE /\ referrals' = result.rows
                 /\ IF result.rowCount > 0
                    THEN /\ lastOutput' = Console("New referral recorded")
                         /\ sent' = IF variant = "sqlite_saves" THEN sent
                                    ELSE [sent EXCEPT ![to] = @ + 1]
                         /\ batch' = BatchInsert(batch, referrer.val)
                         /\ recorded' = recorded (+) SetToBag({referrer.val})
                    ELSE /\ lastOutput' =
                              CASE variant = "postgres" ->
                                     Console("Existing user started with referral link")
                                [] variant = "sqlite" -> lastOutput
                                [] variant = "sqlite_saves" ->
                                     Console("Referral already exists")
                         /\ UNCHANGED <<sent, batch, recorded>>
    /\ UNCHANGED <<variant, referralsDB, startup, user_saves, paid, replaced>>

\* ------------------------------------------------------- bot: /start
\* A message "/start" without a code: index.js answers it; part_000 and
\* part_001 register no handler that matches it.
StartPlain(sender) ==
    /\ variant \in SqlVariants
    /\ Serving
    /\ lastOutput' = IF variant = "postgres" THEN GenericWelcome(sender) ELSE lastOutput
    /\ UNCHANGED <<variant, referrals, inflight, sent, referralsDB, batch, recorded,
                   startup, user_saves, paid, replaced>>

\* ------------------------------------------ GET /my-referrals/:userId
StartStats(userId) ==
    /\ variant \in SqlVariants
    /\ Serving
    /\ lastOutput' = Console("Request for stats")
    /\ Query("SELECT", <<Str(userId)>>)
    /\ UNCHANGED <<variant, referrals, sent, referralsDB, batch, recorded, startup, user_saves, paid, replaced>>

CompleteStats(req) ==
    /\ variant \in SqlVariants
    /\ Executes
    /\ BagIn(req, inflight)
    /\ req.sql = "SELECT"
    /\ inflight' = inflight (-) SetToBag({req})
    /\ \E failure \in Failures :
        LET userId == Column(variant, req.params[1])
        IN  lastOutput' = IF failure \/ ~userId.ok
                          THEN Json(500, [error |-> "Database query failed"])
                          ELSE StatsReply(SelectStatus(referrals, userId.val))
    /\ UNCHANGED <<variant, referrals, sent, referralsDB, batch, recorded, startup, user_saves, paid, replaced>>

\* ------------------------------------------------ POST /claim-rewards
\* Mutant of StartClaim: the handler without its check of userId.
StartClaimUnchecked(userId) ==
    /\ variant \in SqlVariants
    /\ Serving
    /\ Query("UPDATE", <<userId>>)
    /\ batch' = IF Column(variant, userId).ok
                THEN BatchStart(batch, Column(variant, userId).val)
                ELSE batch
    /\ lastOutput' = Console("Request to claim rewards")
    /\ UNCHANGED <<variant, referrals, sent, referralsDB, recorded, startup, user_saves,
                   paid, replaced>>

StartClaim(userId) ==
    /\ variant \in SqlVariants
    /\ Serving
    /\ IF Falsy(userId)
       THEN /\ lastOutput' = Json(400, [error |-> "userId is required"])
            /\ UNCHANGED <<inflight, batch>>
       ELSE /\ Query("UPDATE", <<userId>>)
            /\ batch' = IF Column(variant, userId).ok
                        THEN BatchStart(batch, Column(variant, userId).val)
                        ELSE batch
            /\ lastOutput' = Console("Request to claim rewards")
    /\ UNCHANGED <<variant, referrals, sent, referralsDB, recorded, startup, user_saves, paid, replaced>>

CompleteClaim(req) ==
    /\ variant \in SqlVariants
    /\ Executes
    /\ BagIn(req, inflight)
    /\ req.sql = "UPDATE"
    /\ inflight' = inflight (-) SetToBag({req})
    /\ \E failure \in Failures :
        LET userId == ClaimKey(req)
            result == UpdateClaimed(referrals, userId.val)
        IN  IF failure \/ ~userId.ok
            THEN /\ lastOutput' = Json(500, [error |-> "Database update failed"])
                 /\ UNCHANGED <<referrals, paid>>
                 /\ batch' = IF userId.ok
                             THEN BatchReturn(batch, userId.val, FALSE, 0,
                                              ClaimsInFlight(inflight', userId.val))
                             ELSE batch
            ELSE /\ referrals' = result.rows
                 /\ lastOutput' = ClaimReply(result.rowCount)
                 /\ paid' = Pay(paid, userId.val, ClaimReply(result.rowCount).json)
                 /\ batch' = BatchReturn(batch, userId.val, TRUE, result.rowCount,
                                         ClaimsInFlight(inflight', userId.val))
    /\ UNCHANGED <<variant, sent, referralsDB, recorded, startup, user_saves, replaced>>

\* ------------------------------------------------------- POST /save
StartSave(userId, gameState) ==
    /\ variant = "sqlite_saves"
    /\ Serving
    /\ IF Falsy(userId) \/ Falsy(gameState)
       THEN /\ lastOutput' = Json(400, [error |-> "userId and gameState are required."])
            /\ UNCHANGED inflight
       ELSE /\ lastOutput' = Console("[SAVE] Request to save data")
            /\ Query("REPLACE", <<userId, Str(JsonStringify(gameState))>>)
    /\ UNCHANGED <<variant, referrals, sent, referralsDB, batch, recorded, startup,
                   user_saves, paid, replaced>>

CompleteSave(req) ==
    /\ variant = "sqlite_saves"
    /\ Executes
    /\ BagIn(req, inflight)
    /\ req.sql = "REPLACE"
    /\ inflight' = inflight (-) SetToBag({req})
    /\ \E failure \in Failures :
          IF failure
          THEN /\ lastOutput' = Json(500, [error |-> "Failed to save game data."])
               /\ UNCHANGED <<user_saves, replaced>>
          ELSE /\ user_saves' = ReplaceSave(user_saves, SqliteText(req.params[1]).val,
                                            SqliteText(req.params[2]).val)
               /\ replaced' = replaced \cup
                      {r.user_id : r \in {user_saves[i] : i \in DOMAIN user_saves}
                                          \ {user_saves'[i] : i \in DOMAIN user_saves'}}
               /\ lastOutput' = Json(200, [success |-> TRUE,
                                           message |-> "Game saved successfully."])
    /\ UNCHANGED <<variant, referrals, sent, referralsDB, batch, recorded, startup, paid>>

\* ------------------------------------------------ GET /load/:userId
StartLoad(userId) ==
    /\ variant = "sqlite_saves"
    /\ Serving
    /\ IF Falsy(Str(userId))
       THEN /\ lastOutput' = Json(400, [error |-> "User ID is required."])
            /\ UNCHANGED inflight
       ELSE /\ lastOutput' = Console("[LOAD] Request for save data")
            /\ Query("GET", <<Str(userId)>>)
    /\ UNCHANGED <<variant, referrals, sent, referralsDB, batch, recorded, startup,
                   user_saves, paid, replaced>>

CompleteLoad(req) ==
    /\ variant = "sqlite_saves"
    /\ Executes
    /\ BagIn(req, inflight)
    /\ req.sql = "GET"
    /\ inflight' = inflight (-) SetToBag({req})
    /\ \E failure \in Failures :
          LET rows == SelectSave(user_saves, SqliteText(req.params[1]).val)
          IN  lastOutput' = IF failure THEN Json(500, [error |-> "Database query failed"])
                            ELSE LoadReply(rows)
    /\ UNCHANGED <<variant, referrals, sent, referralsDB, batch, recorded, startup,
                   user_saves, paid, replaced>>

\* ------------------------------------------------ in-memory revision
\* The ids the in-memory revision's requests carry: referrerId and userId name
\* a referrer or are absent; refereeId names a sender, as a number or (the
\* first sender) as text, or is absent.
MemReferrerIds == {Undefined} \cup {Num(n) : n \in Referrers}
MemRefereeIds == {Undefined} \cup {Num(n) : n \in Senders} \cup {Str(Dec(1))}

\* referralsDB[id]: property lookup by String(id); undefined when absent.
HasEntry(db, id) == String(id) \in DOMAIN db

\* Array.prototype.includes: strict equality, a number is not its text.
Includes(list, v) == \E i \in DOMAIN list : list[i] = v

\* POST /referral: the store and the reply it leaves.
MemReferralResult(store, referrerId, refereeId) ==
    IF Falsy(referrerId) \/ Falsy(refereeId)
    THEN [db |-> store, reply |-> Send(400, "Missing referrerId or refereeId")]
    ELSE LET key == String(referrerId)
             db == IF HasEntry(store, referrerId) THEN store
                   ELSE [k \in DOMAIN store \cup {key} |->
                           IF k = key THEN [rewardsToClaim |-> 0, referrals |-> <<>>]
                           ELSE store[k]]
         IN  IF Includes(db[key].referrals, refereeId)
             THEN [db |-> db, reply |-> Send(200, "Referral already recorded.")]
             ELSE [db |-> [db EXCEPT ![key] =
                              [rewardsToClaim |-> @.rewardsToClaim + 1,
                               referrals |-> Append(@.referrals, refereeId)]],
                   reply |-> Send(200, "Referral recorded successfully")]

MemReferral(referrerId, refereeId) ==
    /\ variant = "memory"
    /\ Serving
    /\ referralsDB' = MemReferralResult(referralsDB, referrerId, refereeId).db
    /\ lastOutput' = MemReferralResult(referralsDB, referrerId, refereeId).reply
    /\ UNCHANGED <<variant, referrals, inflight, sent, batch, recorded, startup, user_saves, paid, replaced>>

\* GET /rewards/:userId: the reply.
MemRewardsReply(store, userId) ==
    IF ~HasEntry(store, Str(userId))
    THEN Json(200, [rewardsToClaim |-> 0, referrals |-> <<>>])
    ELSE Json(200, store[userId])

MemRewards(userId) ==
    /\ variant = "memory"
    /\ Serving
    /\ lastOutput' = MemRewardsReply(referralsDB, userId)
    /\ UNCHANGED <<variant, referrals, inflight, sent, referralsDB, batch, recorded, startup, user_saves, paid, replaced>>

\* POST /claim: the store and the reply it leaves.
MemClaimResult(store, userId) ==
    IF Falsy(userId)
    THEN [db |-> store, reply |-> Send(400, "Missing userId")]
    ELSE IF ~HasEntry(store, userId) \/ store[String(userId)].rewardsToClaim = 0
    THEN [db |-> store, reply |-> Send(400, "No rewards to claim")]
    ELSE [db |-> [store EXCEPT ![String(userId)].rewardsToClaim = 0],
          reply |-> Send(200, "Rewards claimed successfully")]

MemClaim(userId) ==
    /\ variant = "memory"
    /\ Serving
    /\ referralsDB' = MemClaimResult(referralsDB, userId).db
    /\ lastOutput' = MemClaimResult(referralsDB, userId).reply
    /\ UNCHANGED <<variant, referrals, inflight, sent, batch, recorded, startup, user_saves, paid, replaced>>

\* ------------------------------------------------------------------ Next
Requests == BagToSet(inflight)

Next ==
    \/ InitializeDatabase
    \/ \E sender \in Senders, code \in Codes : StartReferral(sender, code)
    \/ \E req \in Requests : CompleteReferral(req)
    \/ \E sender \in Senders : StartPlain(sender)
    \/ \E userId \in Codes : StartStats(userId)
    \/ \E req \in Requests : CompleteStats(req)
    \/ \E userId \in BodyIds : StartClaim(userId)
    \/ \E req \in Requests : CompleteClaim(req)
    \/ \E referrerId \in MemReferrerIds, refereeId \in MemRefereeIds :
          MemReferral(referrerId, refereeId)
    \/ \E userId \in Codes : MemRewards(userId)
    \/ \E userId \in MemReferrerIds : MemClaim(userId)

\* The referral ledger of each revision, under every referral, stats and claim
\* request.
Spec == Init /\ [][Next]_vars

\* The save store of part_001, under every save and load request: the handlers
\* of /save and /load touch nothing but user_saves.
SaveInit == Init /\ variant = "sqlite_saves"

SaveNext ==
    \/ InitializeDatabase
    \/ \E userId \in SaveIds, gameState \in GameStates : StartSave(userId, gameState)
    \/ \E req \in Requests : CompleteSave(req)
    \/ \E userId \in LoadIds : StartLoad(userId)
    \/ \E req \in Requests : CompleteLoad(req)

SaveSpec == SaveInit /\ [][SaveNext]_vars

\* Every handler of each revision together, each with a request that carries
\* its required fields and with requests that lack them.
ServerNext ==
    \/ InitializeDatabase
    \/ \E code \in {Dec(1), Dec(NumSenders + 1)} : StartReferral(1, code)
    \/ \E req \in Requests : CompleteReferral(req)
    \/ StartPlain(1)
    \/ StartStats(Dec(NumSenders + 1))
    \/ \E req \in Requests : CompleteStats(req)
    \/ \E userId \in {Undefined, Num(NumSenders + 1)} : StartClaim(userId)
    \/ \E req \in Requests : CompleteClaim(req)
    \/ \E referrerId \in {Undefined, Num(NumSenders + 1)}, refereeId \in {Undefined, Num(1)} :
          MemReferral(referrerId, refereeId)
    \/ MemRewards(Dec(NumSenders + 1))
    \/ \E userId \in {Undefined, Num(NumSenders + 1)} : MemClaim(userId)
    \/ \E userId \in {Undefined, Num(1)}, gameState \in {Undefined, Obj(<<>>)} :
          StartSave(userId, gameState)
    \/ \E req \in Requests : CompleteSave(req)
    \/ StartLoad(Dec(1))
    \/ \E req \in Requests : CompleteLoad(req)

ServerSpec == Init /\ [][ServerNext]_vars

\* ------------------------------------------- two back ends side by side
\* The in-memory revision and an SQL revision (index.js or part_000) are given
\* the same operations one at a time, each run to its end with a working
\* database before the next: referralsDB is the one's store, the table
\* referrals the other's, and lastOutput holds what the two of them answered.
Answers(memory, sql) == [memory |-> memory, sql |-> sql]

\* recordReferral(a, b): POST /referral {referrerId: a, refereeId: b}, and
\* "/start a" sent by b.
PairReferral(a, b) ==
    /\ variant \in {"postgres", "sqlite"}
    /\ startup = "ready"
    /\ LET mem == MemReferralResult(referralsDB, Num(a), Num(b))
           referredId == Num(b)
           referrerId == Str(Dec(a))
           result == InsertReferral(referrals, Column(variant, referrerId).val,
                                    Column(variant, referredId).val)
       IN  /\ referralsDB' = mem.db
           /\ IF String(referredId) = String(referrerId)
              THEN /\ lastOutput' = Answers(mem.reply, Console("self-referral dropped"))
                   /\ UNCHANGED <<referrals, sent>>
              ELSE /\ referrals' = result.rows
                   /\ IF result.rowCount > 0
                      THEN /\ lastOutput' = Answers(mem.reply, Console("New referral recorded"))
                           /\ sent' = [sent EXCEPT ![b] = @ + 1]
                      ELSE /\ lastOutput' = Answers(mem.reply, Console("not new"))
                           /\ UNCHANGED sent
    /\ UNCHANGED <<variant, inflight, batch, recorded, startup, user_saves, paid, replaced>>

\* getStats(a): GET /rewards/a, and GET /my-referrals/a.
PairStats(a) ==
    /\ variant \in {"postgres", "sqlite"}
    /\ startup = "ready"
    /\ lastOutput' =
          Answers(MemRewardsReply(referralsDB, Dec(a)),
                  StatsReply(SelectStatus(referrals, Column(variant, Str(Dec(a))).val)))
    /\ UNCHANGED <<variant, referrals, inflight, sent, referralsDB, batch, recorded,
                   startup, user_saves, paid, replaced>>

\* claimRewards(a): POST /claim {userId: a}, and POST /claim-rewards {userId: a}.
PairClaim(a) ==
    /\ variant \in {"postgres", "sqlite"}
    /\ startup = "ready"
    /\ LET mem == MemClaimResult(referralsDB, Num(a))
           result == UpdateClaimed(referrals, Column(variant, Num(a)).val)
       IN  /\ referralsDB' = mem.db
           /\ referrals' = result.rows
           /\ lastOutput' = Answers(mem.reply, ClaimReply(result.rowCount))
    /\ UNCHANGED <<variant, inflight, sent, batch, recorded, startup, user_saves, paid,
                   replaced>>

EquivInit == Init /\ variant \in {"postgres", "sqlite"}

EquivNext ==
    \/ InitializeDatabase
    \/ \E a \in Referrers, b \in Senders : PairReferral(a, b)
    \/ \E a \in Referrers : PairStats(a)
    \/ \E a \in Referrers : PairClaim(a)

EquivSpec == EquivInit /\ [][EquivNext]_vars

\* --------------------------------------------------------------- ledger
\* The referral records of the running revision, one per stored attribution:
\* a row of the table, or an element of a referrer's list in referralsDB.
Records ==
    IF variant = "memory"
    THEN UNION {{[at |-> <<k, i>>, referrerId |-> Str(k),
                  referredId |-> referralsDB[k].referrals[i]] :
                     i \in DOMAIN referralsDB[k].referrals} : k \in DOMAIN referralsDB}
    ELSE {[at |-> <<i>>, referrerId |-> referrals[i].referrer_id,
           referredId |-> referrals[i].referred_id] : i \in DOMAIN referrals}

RecordsOf(recs, referredId) == {r \in recs : r.referredId = referredId}

\* C1: in every reachable state there is at most one referral record per
\* referredId: no referred user is attributed to more than one referrer.
ReferredIdUnique ==
    \A r1 \in Records, r2 \in Records : r1.referredId = r2.referredId => r1 = r2

\* C2: first writer wins: once a record for b exists, every later operation,
\* a recordReferral(c, b) included, leaves that record the only record of b.
FirstWriterWins ==
    [][\A r \in Records : RecordsOf(Records', r.referredId) = {r}]_vars

\* C7: self-referral is a no-op in every revision: recordReferral(a, a) creates
\* no record, so no record ever has the same user as referrer and referred.
NoSelfReferralRecord ==
    \A r \in Records : String(r.referrerId) # String(r.referredId)

\* The replies the handlers give for a missing required field.
ValidationErrors ==
    {Json(400, [error |-> "userId is required"]),
     Json(400, [error |-> "userId and gameState are required."]),
     Json(400, [error |-> "User ID is required."]),
     Send(400, "Missing referrerId or refereeId"),
     Send(400, "Missing userId")}

\* The replies the handlers give when the statement failed at the database.
PersistenceErrors ==
    {Json(500, [error |-> "Database query failed"]),
     Json(500, [error |-> "Database update failed"]),
     Json(500, [error |-> "Failed to save game data."])}

IsReply(out) == "status" \in DOMAIN out

\* C10: the expected no-op conditions (a claim with zero pending rewards, a
\* self-referral, a duplicate referred id) are never answered 4xx or 5xx: every
\* error reply is a validation error or a persistence failure.
NoOpsAreNotErrors ==
    (IsReply(lastOutput) /\ lastOutput.status >= 400)
        => lastOutput \in ValidationErrors \cup PersistenceErrors

\* ----------------------------------------------------------- claim calls
IsJson(out) == "json" \in DOMAIN out

\* This step executes statement req and runs its callback.
Completes(req) == req \in Requests /\ inflight' = inflight (-) SetToBag({req})

\* The count the claim call answered in this step returned (0 when it failed).
ReturnedNow ==
    IF IsJson(lastOutput') /\ lastOutput'.status = 200
    THEN lastOutput'.json.claimedCount ELSE 0

\* The sum of the counts the batch of `a' has returned after this step.
ReturnedSum(a) ==
    IF a \in DOMAIN batch' THEN batch'[a].sum ELSE batch[a].sum + ReturnedNow

\* C3: when the overlapping claimRewards(a) calls that started against k
\* pending records have all been answered, and no record of a was created in
\* between, the counts they returned sum to exactly k (to 0 if every one of
\* them failed at the database).
ConcurrentClaimsSumToPending ==
    [][\A a \in DOMAIN batch :
          (a \notin DOMAIN batch' /\ batch[a].inserted = 0)
              => ReturnedSum(a) = IF batch[a].ok \/ lastOutput'.status = 200
                                  THEN batch[a].start ELSE 0]_vars

\* Two calls overlapped on k > 1 pending records, one has returned k, the
\* other is still in flight.
OverlappingClaimsShared ==
    \E a \in DOMAIN batch :
        /\ batch[a].overlap
        /\ batch[a].start > 1
        /\ batch[a].sum = batch[a].start
        /\ batch[a].inserted = 0

\* C4 as claimed: the counts overlapping claimRewards(a) calls return never sum
\* to more than the records of a pending when the first call started.
ClaimsBoundedByStart ==
    [][\A a \in DOMAIN batch : ReturnedSum(a) <= batch[a].start]_vars

\* C4 amended: they never sum to more than the records pending when the first
\* call started plus the records of a created since then.
ClaimsBoundedByStartPlusCreated ==
    [][\A a \in DOMAIN batch :
          ReturnedSum(a) <= batch[a].start + batch[a].inserted]_vars

\* A batch has returned more than was pending when it started.
ClaimedMoreThanAtStart ==
    \E a \in DOMAIN batch : batch[a].sum > batch[a].start /\ batch[a].inserted > 0

\* C5: a claimRewards(a) answered with k pending records returns claimedCount k
\* and rewards {k * 50000, k * 5}, turns exactly those k records to claimed and
\* leaves a with nothing pending; with k = 0 (as right after a claim) it returns
\* zeros and changes no record.
ClaimReturnsPending ==
    [][\A req \in Requests :
          (req.sql = "UPDATE" /\ Completes(req)
             /\ IsJson(lastOutput') /\ lastOutput'.status = 200)
              => LET a == ClaimKey(req).val
                     k == PendingCount(referrals, a)
                 IN  /\ lastOutput'.json =
                            [claimedCount |-> k,
                             rewards |-> [money |-> k * 50000, gems |-> k * 5]]
                     /\ DOMAIN referrals' = DOMAIN referrals
                     /\ \A i \in DOMAIN referrals :
                          referrals'[i] =
                             IF referrals[i].referrer_id = a
                             THEN [referrals[i] EXCEPT !.status = "claimed"]
                             ELSE referrals[i]
                     /\ PendingCount(referrals', a) = 0
                     /\ k = 0 => referrals' = referrals]_vars

\* A claim returned more than one record and every record is claimed.
ClaimedSeveral ==
    /\ IsJson(lastOutput)
    /\ "claimedCount" \in DOMAIN lastOutput.json
    /\ lastOutput.json.claimedCount > 1
    /\ Len(referrals) > 1
    /\ \A i \in DOMAIN referrals : referrals[i].status = "claimed"

\* ------------------------------------------------------------ referrals
SamePair(r1, r2) == r1.referrerId = r2.referrerId /\ r1.referredId = r2.referredId

\* What the bot handler puts out for a referral that is not new: a line saying
\* so, or (part_000) nothing; or the error line when the database failed.
NotNewOutputs ==
    {Console("Existing user started with referral link"),
     Console("Referral already exists"),
     Console("DATABASE INSERT ERROR"),
     lastOutput}

\* C6: recordReferral(a, b) for a pair already recorded creates no record,
\* reports "not new" (no welcome message, no "recorded" answer) and leaves the
\* ledger as it was, whatever the record's status.
RecordReferralIdempotent ==
    [][/\ \A req \in Requests :
            (/\ req.sql = "INSERT" /\ Completes(req)
             /\ Column(variant, req.params[1]).ok
             /\ \E i \in DOMAIN referrals :
                   /\ referrals[i].referrer_id = Column(variant, req.params[1]).val
                   /\ referrals[i].referred_id = Column(variant, req.params[2]).val)
             => /\ referrals' = referrals
                /\ sent' = sent
                /\ lastOutput' \in NotNewOutputs
       /\ variant = "memory" =>
            /\ \A r \in Records : {x \in Records' : SamePair(x, r)} = {r}
            /\ lastOutput' = Send(200, "Referral already recorded.")
                  => referralsDB' = referralsDB
            /\ lastOutput' = Send(200, "Referral recorded successfully")
                  => \E x \in Records' : \A r \in Records : ~SamePair(x, r)]_vars

\* A referral was repeated after its record had been claimed.
RepeatedAfterClaim ==
    /\ lastOutput = Console("Existing user started with referral link")
    /\ Len(referrals) = 1
    /\ referrals[1].status = "claimed"

\* C8: getStats(a), when the database answers, returns friendsInvited = the
\* number k of records created for a, unclaimedCount = a's pending records
\* (k when none of them was claimed) and unclaimedReward = that count times
\* {50000, 5}; for a referrer with no records all of it is zero.  The only
\* other answer is the persistence error.
StatsCountRecorded ==
    [][\A req \in Requests :
          (req.sql = "SELECT" /\ Completes(req))
              => LET a == Column(variant, req.params[1]).val
                     k == CopiesIn(a, recorded)
                     p == PendingCount(referrals, a)
                 IN  \/ lastOutput' = Json(500, [error |-> "Database query failed"])
                     \/ /\ lastOutput' =
                              Json(200, [friendsInvited |-> k,
                                         unclaimedCount |-> p,
                                         unclaimedReward |->
                                             [money |-> p * 50000, gems |-> p * 5]])
                        /\ (\A i \in DOMAIN referrals :
                               referrals[i].referrer_id = a
                                  => referrals[i].status = "pending") => p = k
                        /\ referrals' = referrals]_vars

\* Stats were returned for a referrer with several records, none claimed.
StatsOfSeveral ==
    /\ IsJson(lastOutput)
    /\ "friendsInvited" \in DOMAIN lastOutput.json
    /\ lastOutput.json.friendsInvited > 1
    /\ lastOutput.json.unclaimedCount = lastOutput.json.friendsInvited

\* C9: a record is never deleted, its referrer and referred user never change,
\* it is created pending, and its status changes only from pending to claimed
\* and only in a step that executes a claim of its own referrer.
RecordLifecycle ==
    [][/\ \A i \in DOMAIN referrals :
            /\ i \in DOMAIN referrals'
            /\ referrals'[i].referrer_id = referrals[i].referrer_id
            /\ referrals'[i].referred_id = referrals[i].referred_id
            /\ referrals'[i].status # referrals[i].status
                  => /\ referrals[i].status = "pending"
                     /\ referrals'[i].status = "claimed"
                     /\ \E req \in Requests :
                           /\ req.sql = "UPDATE" /\ Completes(req)
                           /\ ClaimKey(req).ok
                           /\ ClaimKey(req).val = referrals[i].referrer_id
       /\ \A i \in DOMAIN referrals' \ DOMAIN referrals :
            referrals'[i].status = "pending"]_vars

\* A claimed record beside a pending one created for another referrer.
ClaimedBesidePending ==
    \E i \in DOMAIN referrals, j \in DOMAIN referrals :
        /\ referrals[i].status = "claimed"
        /\ referrals[j].status = "pending"
        /\ referrals[i].referrer_id # referrals[j].referrer_id

\* ------------------------------------------------------------ save store
SaveSucceeded == Json(200, [success |-> TRUE, message |-> "Game saved successfully."])

SaveFailed == Json(500, [error |-> "Failed to save game data."])

\* The user a /save or /load statement addresses, as the user_id column holds it.
SaveKey(req) == SqliteText(req.params[1]).val

\* A user id the client sends for a user, a game state it sends: an object.
WellFormedIds == {u \in SaveIds : ~Falsy(u)}
WellFormedStates == {S \in GameStates : S.t = "object"}

\* C11: save(u, S) of a well-formed payload is accepted and, unless the
\* database fails, succeeds; from then on load(u) returns a payload equal to S
\* until another save for u is executed; a load changes no save.
SaveThenLoadReturnsSaved ==
    [][/\ \A u \in WellFormedIds, S \in WellFormedStates :
             StartSave(u, S)
                => \E req \in BagToSet(inflight') :
                      /\ req.sql = "REPLACE"
                      /\ req.params = <<u, Str(JsonStringify(S))>>
                      /\ CopiesIn(req, inflight') = CopiesIn(req, inflight) + 1
       /\ \A req \in Requests :
             (req.sql = "REPLACE" /\ Completes(req))
                => \/ lastOutput' = SaveFailed /\ user_saves' = user_saves
                   \/ /\ lastOutput' = SaveSucceeded
                      /\ \A S \in WellFormedStates :
                            req.params[2] = Str(JsonStringify(S))
                               => LoadReply(SelectSave(user_saves', SaveKey(req)))
                                     = Json(200, S)
       /\ \A req \in Requests :
             (req.sql = "GET" /\ Completes(req))
                => /\ lastOutput' \in {LoadReply(SelectSave(user_saves, SaveKey(req))),
                                       Json(500, [error |-> "Database query failed"])}
                   /\ user_saves' = user_saves
       /\ \A u \in LoadIds :
             SelectSave(user_saves', Str(u)) # SelectSave(user_saves, Str(u))
                => \E req \in Requests :
                      req.sql = "REPLACE" /\ Completes(req) /\ SaveKey(req) = Str(u)]_vars

\* A load has returned a nested game state while another user's save is stored.
LoadedNestedState ==
    /\ IsJson(lastOutput)
    /\ lastOutput.status = 200
    /\ lastOutput.json \in WellFormedStates
    /\ Len(lastOutput.json.members) > 1
    /\ Len(user_saves) > 1

\* C12: there is at most one save record per user, and a save replaces the
\* user's record whole: after an executed save(u, S2) the one record of u holds
\* exactly S2, whatever it held before, and the records of every other user
\* are as they were.
OneSavePerUserReplaced ==
    /\ [](\A i \in DOMAIN user_saves, j \in DOMAIN user_saves :
            user_saves[i].user_id = user_saves[j].user_id => i = j)
    /\ [][\A req \in Requests :
             (req.sql = "REPLACE" /\ Completes(req) /\ lastOutput' = SaveSucceeded)
                => /\ SelectSave(user_saves', SaveKey(req))
                        = <<[user_id |-> SaveKey(req), game_state |-> req.params[2]]>>
                   /\ \A u \in LoadIds :
                         Str(u) # SaveKey(req)
                            => SelectSave(user_saves', Str(u))
                                  = SelectSave(user_saves, Str(u))]_vars

\* A user's record was replaced after another user saved: the new record
\* follows the other user's, which is as it was first stored.
ReplacedBesideOther ==
    /\ lastOutput = SaveSucceeded
    /\ Len(user_saves) = 2
    /\ user_saves[2].user_id \in replaced
    /\ user_saves[1].user_id \notin replaced

\* C13: load(u) for a user with no save record answers 404 with the not-found
\* message (500 only when the database itself fails), never a payload, and
\* creates no record.
LoadUnknownNotFound ==
    [][\A req \in Requests :
          (/\ req.sql = "GET" /\ Completes(req)
           /\ \A i \in DOMAIN user_saves : user_saves[i].user_id # SaveKey(req))
             => /\ lastOutput' \in {Json(404, [message |-> "No save data found for this user."]),
                                    Json(500, [error |-> "Database query failed"])}
                /\ user_saves' = user_saves]_vars

\* Not-found was answered for one user while another user's save is stored.
NotFoundBesideSaved ==
    /\ IsReply(lastOutput)
    /\ lastOutput.status = 404
    /\ user_saves # <<>>

\* ----------------------------------------------------------- validation
\* The reply is a 4xx and the step leaves the ledger, the save store, the
\* statements in flight and the bot's messages as they were.
RejectedWithoutEffect ==
    /\ IsReply(lastOutput')
    /\ lastOutput'.status >= 400
    /\ lastOutput'.status < 500
    /\ lastOutput' \in ValidationErrors
    /\ UNCHANGED <<referrals, referralsDB, user_saves, inflight, sent>>

\* C14: a request that lacks a required field (a claim without userId, a save
\* without userId or gameState, an in-memory referral without referrerId or
\* refereeId) is answered 4xx and has no side effect.
MissingFieldRejected ==
    [][/\ \A userId \in BodyIds :
             (Falsy(userId) /\ StartClaim(userId)) => RejectedWithoutEffect
       /\ \A userId \in MemReferrerIds :
             (Falsy(userId) /\ MemClaim(userId)) => RejectedWithoutEffect
       /\ \A userId \in SaveIds, gameState \in GameStates :
             ((Falsy(userId) \/ Falsy(gameState)) /\ StartSave(userId, gameState))
                => RejectedWithoutEffect
       /\ \A referrerId \in MemReferrerIds, refereeId \in MemRefereeIds :
             ((Falsy(referrerId) \/ Falsy(refereeId)) /\ MemReferral(referrerId, refereeId))
                => RejectedWithoutEffect]_vars

\* A claim without userId was rejected while a referral is recorded and a
\* game is saved.
RejectedBesideStored ==
    /\ lastOutput = Json(400, [error |-> "userId is required"])
    /\ referrals # <<>>
    /\ user_saves # <<>>

\* ------------------------------------------------- persistence failures
\* What the handler of a statement puts out when the statement failed.
ErrorOf(sql) ==
    CASE sql = "INSERT" -> Console("DATABASE INSERT ERROR")
      [] sql = "SELECT" -> Json(500, [error |-> "Database query failed"])
      [] sql = "UPDATE" -> Json(500, [error |-> "Database update failed"])
      [] sql = "REPLACE" -> Json(500, [error |-> "Failed to save game data."])
      [] sql = "GET" -> Json(500, [error |-> "Database query failed"])

\* A statement that fails (it surely does while the table is missing) is
\* answered with its operation's error, 5xx over HTTP and a logged line in the
\* bot; an operation answered so has changed no stored state and sent no
\* welcome notification; and no statement's completion ends the process.
RequestFailuresCaught ==
    \A req \in Requests :
        Completes(req)
           => /\ startup # "ready" => lastOutput' = ErrorOf(req.sql)
              /\ lastOutput' = ErrorOf(req.sql)
                    => UNCHANGED <<referrals, user_saves, sent, paid, referralsDB>>
              /\ IsReply(ErrorOf(req.sql)) => ErrorOf(req.sql).status >= 500
              /\ startup' = startup
              /\ Serving

\* C15 as claimed: every persistence failure is caught and answered so, and
\* none ends the process.
PersistenceFailuresNeverFatal ==
    [][RequestFailuresCaught /\ startup' # "exited"]_vars

\* C15 amended: every persistence failure of a request is caught and answered
\* so and none of them ends the process; the process ends only when the
\* table-creating initialization fails at startup, in index.js and part_001
\* (part_000 logs that failure and keeps serving), and that changes no stored
\* state.
OnlyInitializationFailureFatal ==
    [][/\ RequestFailuresCaught
       /\ (startup' = "exited" /\ startup # "exited")
             => /\ startup = "initializing"
                /\ variant \in {"postgres", "sqlite_saves"}
                /\ lastOutput' = Console("DATABASE INITIALIZATION ERROR")
                /\ UNCHANGED <<referrals, user_saves, sent, paid, inflight>>
       /\ (startup' = "failed" /\ startup # "failed")
             => startup = "initializing" /\ variant = "sqlite"]_vars

\* A claim failed at the database: its record is still pending and the
\* process serves on.
FailedClaimLeftPending ==
    /\ lastOutput = Json(500, [error |-> "Database update failed"])
    /\ startup = "ready"
    /\ \E i \in DOMAIN referrals : referrals[i].status = "pending"

\* -------------------------------------------------------- start events
\* The handler has issued the INSERT of (code, sender).
RecordReferralTriggered(sender, code) ==
    \E req \in BagToSet(inflight') :
        /\ req.sql = "INSERT"
        /\ String(req.params[1]) = code
        /\ String(req.params[2]) = Dec(sender)
        /\ CopiesIn(req, inflight') = CopiesIn(req, inflight) + 1

\* C16: every start event has one of two outcomes: with a code distinct from
\* the sender recordReferral is triggered; without a code, or with the
\* sender's own id as code, the generic welcome message is sent to the sender.
\* (No handling of a start event ends otherwise.)
StartEventOutcomes ==
    \A sender \in Senders :
        /\ \A code \in Codes \ {Dec(sender)} :
              ~ENABLED (StartReferral(sender, code)
                           /\ ~RecordReferralTriggered(sender, code))
        /\ ~ENABLED (StartReferral(sender, Dec(sender))
                        /\ lastOutput' # GenericWelcome(sender))
        /\ ~ENABLED (StartPlain(sender) /\ lastOutput' # GenericWelcome(sender))

\* ------------------------------------------------ welcome notification
\* This step created a referral record whose referred user is u.
CreatedRecordOf(u) ==
    /\ Len(referrals') = Len(referrals) + 1
    /\ String(referrals'[Len(referrals')].referred_id) = Dec(u)
    /\ \E req \in Requests : req.sql = "INSERT" /\ Completes(req)

EntryOf(key) ==
    IF key \in DOMAIN referralsDB THEN referralsDB[key]
    ELSE [rewardsToClaim |-> 0, referrals |-> <<>>]

\* C18: given the same operations, the in-memory revision and an SQL revision
\* stay related: for every user the in-memory rewardsToClaim equals the number
\* of the user's pending rows, the in-memory referrals list holds exactly the
\* referred ids of the user's rows, and the two report success or failure
\* alike.
BackendsRelated ==
    /\ \A a \in Referrers \cup Senders :
          LET key == Column(variant, Str(Dec(a))).val
              mine == {i \in DOMAIN referrals : referrals[i].referrer_id = key}
          IN  /\ EntryOf(Dec(a)).rewardsToClaim = PendingCount(referrals, key)
              /\ {String(EntryOf(Dec(a)).referrals[i]) :
                     i \in DOMAIN EntryOf(Dec(a)).referrals}
                   = {String(referrals[i].referred_id) : i \in mine}
    /\ ("memory" \in DOMAIN lastOutput /\ IsReply(lastOutput.sql))
          => (lastOutput.memory.status >= 400 <=> lastOutput.sql.status >= 400)

\* -------------------------------------------------------------- startup
\* C19: the server serves only after the database is ready: no statement of a
\* request runs before the table-creating initialization has completed
\* successfully, and once initialization has failed no request is served.
ServesOnlyWhenReady ==
    [][/\ \A req \in Requests : Completes(req) => startup = "ready"
       /\ startup \in {"failed", "exited"} => UNCHANGED <<lastOutput, inflight>>]_vars

\* --------------------------------------------------- reward conservation
\* What the answered claims of `key' have returned in total.
PaidOf(key) ==
    IF key \in DOMAIN paid THEN paid[key]
    ELSE [claimedCount |-> 0, money |-> 0, gems |-> 0]

ClaimedCount(rows, key) ==
    Cardinality({i \in DOMAIN rows : rows[i].referrer_id = key /\ rows[i].status = "claimed"})

\* C20: in every reachable state, for every referrer a, the claimedCount values
\* the answered claimRewards(a) calls returned sum to the number of a's claimed
\* records and the rewards they returned to that number times {50000, 5}; and
\* the friendsInvited getStats(a) reports is a's pending plus claimed records.
RewardsConserved ==
    /\ [](\A key \in DOMAIN paid \cup {referrals[i].referrer_id : i \in DOMAIN referrals} :
            /\ PaidOf(key).claimedCount = ClaimedCount(referrals, key)
            /\ PaidOf(key).money = ClaimedCount(referrals, key) * 50000
            /\ PaidOf(key).gems = ClaimedCount(referrals, key) * 5)
    /\ [][\A req \in Requests :
             (/\ req.sql = "SELECT" /\ Completes(req)
              /\ IsJson(lastOutput') /\ lastOutput'.status = 200)
                => LET a == Column(variant, req.params[1]).val
                   IN  lastOutput'.json.friendsInvited
                          = PendingCount(referrals, a) + ClaimedCount(referrals, a)]_vars

\* A referrer has been paid for several records and holds no pending one.
PaidForSeveral ==
    \E key \in DOMAIN paid :
        /\ paid[key].claimedCount > 1
        /\ ClaimedCount(referrals, key) = paid[key].claimedCount
        /\ PendingCount(referrals, key) = 0

\* ------------------------------------------------- per-referrer isolation
\* The referrers a stats request can name, as the column compares them, and
\* the referrers of the stored records.
StatsKeys(rows) ==
    {Column(variant, Str(c)).val : c \in {d \in Codes : Column(variant, Str(d)).ok}}
      \cup {rows[i].referrer_id : i \in DOMAIN rows}

\* getStats(c) computed on a table: the reply of GET /my-referrals/c.
GetStats(rows, c) == StatsReply(SelectStatus(rows, c))

\* C21: in every step of the SQL revisions, the statement of claimRewards(a)
\* changes no record whose referrer differs from a, the statement of
\* recordReferral(a, b) changes no existing record, the statement of getStats
\* changes no record, and nothing else changes the table; so the statement of
\* an operation issued for a leaves getStats(c) the same for every c # a.
OtherReferrersUntouched ==
    [][/\ \A req \in Requests :
            Completes(req) /\ req.sql \in {"INSERT", "SELECT", "UPDATE"} =>
              LET a == Column(variant, req.params[1]).val
              IN  /\ req.sql = "UPDATE" =>
                        /\ DOMAIN referrals' = DOMAIN referrals
                        /\ \A i \in DOMAIN referrals :
                               referrals[i].referrer_id # a => referrals'[i] = referrals[i]
                  /\ req.sql = "INSERT" =>
                        /\ Len(referrals') >= Len(referrals)
                        /\ SubSeq(referrals', 1, Len(referrals)) = referrals
                  /\ req.sql = "SELECT" => referrals' = referrals
                  /\ \A c \in StatsKeys(referrals) \cup StatsKeys(referrals') :
                        c # a => GetStats(referrals', c) = GetStats(referrals, c)
       /\ referrals' # referrals =>
             \E req \in Requests : Completes(req) /\ req.sql \in {"INSERT", "UPDATE"}]_vars

\* A claim of one referrer has acted on a table that held a record of another:
\* the later record is claimed, the earlier one, of another referrer, pending.
ClaimedBesideOthersPending ==
    /\ Len(referrals) > 1
    /\ referrals[1].referrer_id # referrals[2].referrer_id
    /\ referrals[1].status = "pending"
    /\ referrals[2].status = "claimed"

\* ------------------------------------------------- in-memory store
\* Two positions of a referrals list name the same referee: the same user id,
\* as the store's own keys identify ids (referralsDB[1] is referralsDB["1"]).
DuplicateReferee(list) ==
    \E i, j \in DOMAIN list : i # j /\ String(list[i]) = String(list[j])

\* C22: in the in-memory revision, in every reachable state every entry has
\* 0 <= rewardsToClaim <= length of its referrals list and no referee twice in
\* the list; an answered /claim sets rewardsToClaim of its entry to 0 and
\* leaves every referrals list as it was; /rewards leaves the store as it was.
MemoryStoreInvariants ==
    /\ [](\A k \in DOMAIN referralsDB :
            /\ 0 <= referralsDB[k].rewardsToClaim
            /\ referralsDB[k].rewardsToClaim <= Len(referralsDB[k].referrals)
            /\ ~DuplicateReferee(referralsDB[k].referrals))
    /\ [][/\ \A userId \in MemReferrerIds :
              MemClaim(userId) /\ lastOutput'.status = 200 =>
                 /\ DOMAIN referralsDB' = DOMAIN referralsDB
                 /\ referralsDB'[String(userId)].rewardsToClaim = 0
                 /\ \A k \in DOMAIN referralsDB :
                       /\ referralsDB'[k].referrals = referralsDB[k].referrals
                       /\ k # String(userId) => referralsDB'[k] = referralsDB[k]
          /\ (\E userId \in Codes : MemRewards(userId)) => referralsDB' = referralsDB]_vars

====
